---- MODULE Spec2Model ----
(***************************************************************************)
(* EcoSync backend: the post verification pipeline (routes/posts.py), the  *)
(* credit ledger and embeddings store (db.py), the duplicate detector and  *)
(* authenticity assessor (services/verification.py) and the client of the  *)
(* remote verification service (ai_client.py).                             *)
(*                                                                         *)
(* Every request handler is a process that advances one database           *)
(* transaction (one db_conn block) or one external call at a time.  Each   *)
(* db.py function opens its own connection and commits on its own, so      *)
(* requests served by different workers interleave between (and, for the   *)
(* SELECT-then-UPDATE of adjust_credits, inside) those transactions.       *)
(* Spec is that interleaved system; SeqSpec runs the same handlers one     *)
(* request at a time.                                                      *)
(***************************************************************************)
EXTENDS Integers, Sequences, FiniteSets, TLC

\* ---------------------------------------------------------------- bounds
\* Number of requests (of any kind) that are ever started.
MaxOps == 2
\* Dimensionality of the deterministic hash embedding (64 in the source,
\* scaled down together with the digest length).
HashDims == 3
\* the largest dims _hash_embedding is called with on its own
MaxDims == 5

\* ------------------------------------------------------ program constants
DefaultRewardPerPost == 10
AI_SERVICE_RETRIES == 2
\* the divisor of _hash_embedding: component = byte / 255.0
HashScale == 255
\* the verification service's award: int(os.getenv("AI_DEFAULT_CREDITS", "1"))
DEFAULT_CREDITS == 1

\* ------------------------------------------------------------ input sets
Users == {"u1", "u2"}
\* (owner, media) of the submissions: one owner with two blobs, and a second
\* owner with the first owner's blob
Submissions == {<<"u1", "m1">>, <<"u1", "m2">>, <<"u2", "m1">>}
Procs == {1, 2}
\* credits query parameter of approve_post
ApproveCredits == {-1, 15}
\* amount of a redeem request
RedeemAmounts == {-1, 10}

VARIABLES
    posts,          \* posts table: post id -> row
    credits,        \* credits table: user id -> balance (rows may be absent)
    embeddings,     \* embeddings table, in storage order
    nextId,         \* next fresh post id
    opCount,        \* requests started so far
    offline_mode,   \* settings.offline_mode
    gemini_api_key, \* settings.gemini_api_key is set
    ai_service_url, \* AI_SERVICE_URL is set
    proc,           \* per request handler: program counter and locals
    redeemed,       \* history: some redeem request went through
    deleted,        \* history: some post was deleted
    accepted,       \* history: posts whose run passed the duplicate check and completed
    scan,           \* one duplicate search on its own: its arguments and its result
    last            \* history: the approve_post request that returned last, if no
                    \* other request returned since

vars == <<posts, credits, embeddings, nextId, opCount, offline_mode,
          gemini_api_key, ai_service_url, proc, redeemed, deleted, accepted,
          scan, last>>

config == <<offline_mode, gemini_api_key, ai_service_url>>

\* ------------------------------------------------------------- vectors
Max0(x) == IF x > 0 THEN x ELSE 0

Abs(x) == IF x < 0 THEN -x ELSE x

RECURSIVE Dot(_, _)
Dot(a, b) == IF a = <<>> \/ b = <<>> THEN 0
             ELSE Head(a) * Head(b) + Dot(Tail(a), Tail(b))

\* A similarity score d / sqrt(q), kept exact.
ZeroScore == [d |-> 0, q |-> 1]

\* 0.80 = 4 / sqrt(25)
DupThreshold == [d |-> 4, q |-> 25]

ScoreGT(s, t) ==
    IF s.d >= 0 /\ t.d >= 0 THEN s.d * s.d * t.q > t.d * t.d * s.q
    ELSE IF s.d >= 0 THEN TRUE
    ELSE IF t.d >= 0 THEN FALSE
    ELSE s.d * s.d * t.q < t.d * t.d * s.q

\* _cosine: 0.0 for an empty operand, a length mismatch or a zero norm
Cosine(a, b) ==
    IF a = <<>> \/ b = <<>> \/ Len(a) # Len(b) THEN ZeroScore
    ELSE IF Dot(a, a) = 0 \/ Dot(b, b) = 0 THEN ZeroScore
    ELSE [d |-> Dot(a, b), q |-> Dot(a, a) * Dot(b, b)]

\* genai.embed_content(...)["embedding"] when the service answers: a vector
\* of the service's own dimensionality (2 here, never that of the hash)
SemEmbedding(m) == IF m = "m1" THEN <<3, 1>> ELSE <<1, 3>>

\* hashlib.sha256(data).digest(), as a table of two-byte digests
Sha256Digest(m) ==
    IF m = "m1" THEN <<3, 1>>
    ELSE IF m = "m3" THEN <<0, 255>>
    ELSE IF m = "m4" THEN <<255, 128>>
    ELSE <<1, 3>>

RECURSIVE Repeat(_, _)
Repeat(s, n) == IF n <= 0 THEN <<>> ELSE s \o Repeat(s, n - 1)

\* mutant: the repeated digest, not cut to dims
HashEmbeddingUncut(m, dims) ==
    LET digest == Sha256Digest(m)
    IN  Repeat(digest, (dims \div Len(digest)) + 1)

\* _hash_embedding: the digest repeated and cut to dims components; every
\* component is byte / 255.0, a common factor that cosine does not see
\* (a component is kept as its byte, the numerator over HashScale)
HashEmbedding(m, dims) ==
    LET digest == Sha256Digest(m)
        full == Repeat(digest, (dims \div Len(digest)) + 1)
    IN  SubSeq(full, 1, dims)

\* mutant: the records of every owner are candidates
CandidatesAllOwners(embs, user_id) == embs

\* find_near_duplicate: the candidates of the owner in storage order, the
\* best score strictly above the threshold and above every earlier one
Candidates(embs, user_id) == SelectSeq(embs, LAMBDA c : c.user_id = user_id)

RECURSIVE ScanBest(_, _, _, _, _, _)
ScanBest(cands, i, vector, threshold, best, best_score) ==
    IF i > Len(cands) THEN best
    ELSE LET score == Cosine(vector, cands[i].vector)
         IN  IF ScoreGT(score, threshold) /\ ScoreGT(score, best_score)
             THEN ScanBest(cands, i + 1, vector, threshold, cands[i].post_id, score)
             ELSE ScanBest(cands, i + 1, vector, threshold, best, best_score)

\* mutant: the best score starts below every cosine
FindNearDuplicateFromBelow(vector, embs, threshold, user_id) ==
    ScanBest(Candidates(embs, user_id), 1, vector, threshold, 0, [d |-> -2, q |-> 1])

\* 0 stands for None
FindNearDuplicate(vector, embs, threshold, user_id) ==
    ScanBest(Candidates(embs, user_id), 1, vector, threshold, 0, ZeroScore)

\* ------------------------------------------------------------- ledger
\* get_credits: a missing row reads as 0
GetCredits(u) == IF u \in DOMAIN credits THEN credits[u] ELSE 0

\* mutant: the floor at zero forgotten
NewBalanceNoFloor(current, delta) == current + delta

\* new_val = max(0, current + delta)
NewBalance(current, delta) == Max0(current + delta)

\* ------------------------------------------------------------- posts
\* created_at is kept as its side of purge's cutoff: "recent" on creation
\* (datetime.now), "stale" once max_age_hours have passed
PostRow(u, m) ==
    [user_id |-> u, media |-> m, status |-> "pending", verified |-> FALSE,
     credits_awarded |-> 0, created_at |-> "recent"]

\* update_post: UPDATE ... WHERE id = post_id (no row, no change)
UpdatePost(tbl, post_id, st, ver, cr) ==
    IF post_id \in DOMAIN tbl
    THEN [tbl EXCEPT ![post_id].status = st, ![post_id].verified = ver,
                     ![post_id].credits_awarded = cr]
    ELSE tbl

\* ------------------------------------------------------------- processes
NoAi == [kind |-> "none", status |-> "absent", credits |-> 0]

Idle ==
    [pc |-> "idle", op |-> "none", user |-> "none", post |-> 0, media |-> "none",
     vector |-> <<>>, dup |-> 0, verdict |-> FALSE, unusable |-> FALSE,
     ai |-> NoAi, attempt |-> 0, delta |-> 0, cur |-> 0, row |-> FALSE,
     ret |-> 0, newc |-> 0, bal0 |-> 0, prior |-> FALSE, calls |-> {},
     arg |-> 0, got200 |-> FALSE, slept |-> 0, b64 |-> <<>>, stale_ids |-> {}]

\* no search on its own is being made
NoScan == [pc |-> "none"]

Init ==
    /\ posts = <<>>
    /\ credits = <<>>
    /\ embeddings = <<>>
    /\ nextId = 1
    /\ opCount = 0
    /\ offline_mode \in BOOLEAN
    /\ gemini_api_key \in BOOLEAN
    /\ offline_mode => gemini_api_key   \* offline without a key acts as offline with one
    /\ ai_service_url \in BOOLEAN
    /\ proc = [p \in Procs |-> Idle]
    /\ redeemed = FALSE
    /\ deleted = FALSE
    /\ accepted = {}
    /\ scan = NoScan
    /\ last = Idle

\* ------------------------------------------------- authenticity assessor
\* Raw texts of the generative model's answer, as character sequences.
T_YES == <<"Y", "E", "S">>
T_NO == <<"N", "O">>
T_yes_padded == <<" ", "y", "e", "s", " ">>
T_yes_late_no == <<"y", "e", "s", " ", "i", "t", " ", "i", "s", " ", "n", "o", "t">>
T_no_then_yes == <<"N", "o", ",", " ", "y", "e", "s">>
T_error_like == <<"g", "e", "m", "i", "n", "i", "-", "e", "r", "r", "o", "r", " ", "y", "e", "s">>
T_sentinel_like == <<"o", "f", "f", "l", "i", "n", "e", "-", "a", "u", "t", "o", "-",
                     "v", "e", "r", "i", "f", "i", "e", "d">>
T_empty == <<>>

GeminiTexts == {T_YES, T_NO, T_yes_padded, T_yes_late_no, T_no_then_yes,
                T_error_like, T_sentinel_like, T_empty}

OfflineSentinel == T_sentinel_like

GeminiErrorPrefix == <<"g", "e", "m", "i", "n", "i", "-", "e", "r", "r", "o", "r">>

\* f"gemini-error: {exc}"
GeminiErrorNote == GeminiErrorPrefix \o <<":", " ", "x">>

LowerChar(c) ==
    CASE c = "Y" -> "y" [] c = "E" -> "e" [] c = "S" -> "s"
      [] c = "N" -> "n" [] c = "O" -> "o" [] OTHER -> c

Lower(t) == [i \in 1..Len(t) |-> LowerChar(t[i])]

RECURSIVE LStrip(_)
LStrip(t) == IF t # <<>> /\ Head(t) = " " THEN LStrip(Tail(t)) ELSE t

RECURSIVE RStrip(_)
RStrip(t) == IF t # <<>> /\ t[Len(t)] = " " THEN RStrip(SubSeq(t, 1, Len(t) - 1)) ELSE t

Strip(t) == RStrip(LStrip(t))

Take(t, n) == SubSeq(t, 1, IF Len(t) < n THEN Len(t) ELSE n)

Contains(t, pat) ==
    \E i \in 1..(Len(t) - Len(pat) + 1) : SubSeq(t, i, i + Len(pat) - 1) = pat

StartsWith(t, pat) == Len(pat) <= Len(t) /\ SubSeq(t, 1, Len(pat)) = pat

\* mutant: a "no" anywhere in the text makes the verdict false
VerdictNoAnywhere(text) ==
    Contains(text, <<"y", "e", "s">>) /\ ~Contains(text, <<"n", "o">>)

\* verdict = "yes" in text and "no" not in text[:10]
Verdict(text) ==
    Contains(text, <<"y", "e", "s">>) /\ ~Contains(Take(text, 10), <<"n", "o">>)

\* assess_image_authenticity on an answer of the model: (verdict, rationale)
AssessText(raw) ==
    LET text == Lower(Strip(raw))
    IN  [verdict |-> Verdict(text), notes |-> text]

\* the condition of create_post that routes to the remote service
Unusable(offline, has_key, notes) ==
    offline \/ ~has_key \/ notes = OfflineSentinel \/ StartsWith(notes, GeminiErrorPrefix)

\* --------------------------------------------------- remote verification
\* attempts = max(1, AI_SERVICE_RETRIES)
Attempts == IF AI_SERVICE_RETRIES > 1 THEN AI_SERVICE_RETRIES ELSE 1

\* Bodies of an HTTP 200 answer.  The first three are the answers of the
\* repository's own service (unique, duplicate, no embedding); the others are
\* a non-positive credit with verified, a credit with a missing status, a
\* status that is none of pending, verified and rejected, and {}.
RemoteBodies ==
    {[kind |-> "body", status |-> "verified", credits |-> 1],
     [kind |-> "body", status |-> "rejected", credits |-> 0],
     [kind |-> "body", status |-> "pending", credits |-> 0],
     [kind |-> "body", status |-> "verified", credits |-> -1],
     [kind |-> "body", status |-> "absent", credits |-> 1],
     [kind |-> "body", status |-> "duplicate", credits |-> 0],
     [kind |-> "empty", status |-> "absent", credits |-> 0]}

\* a response with a status other than 200, or an exception of the request
NonOk == [kind |-> "non200", status |-> "absent", credits |-> 0]

\* a 200 whose body is not JSON: resp.json() raises inside the try block
BadBody == [kind |-> "nojson", status |-> "absent", credits |-> 0]

\* what one request to /ai/verify can come back with
RemoteResponses == RemoteBodies \cup {NonOk, BadBody}

\* {"status": "pending", "notes": "Pending manual review (AI service unavailable)"}
Synthesized == [kind |-> "synth", status |-> "pending", credits |-> 0]

\* `if ai_result:` -- None and {} are falsy
Truthy(ai) == ai.kind \in {"body", "synth"}

\* mutant: the credit applied for every verified answer, whatever its amount
ShouldCreditAnyVerified(is_verified, credits_val) == is_verified

\* is_verified and credits_val > 0
ShouldCredit(is_verified, credits_val) == is_verified /\ credits_val > 0

\* The status decision of create_post after a passed duplicate check:
\* what update_post writes and whether adjust_credits is called with it.
StatusDecision(unusable, verdict, ai) ==
    IF unusable
    THEN IF Truthy(ai)
         THEN LET status_val == IF ai.status = "absent" THEN "pending" ELSE ai.status
                  credits_val == ai.credits
                  is_verified == status_val = "verified"
              IN  [status |-> status_val, verified |-> is_verified,
                   credits |-> credits_val,
                   adjust |-> ShouldCredit(is_verified, credits_val)]
         ELSE [status |-> "pending", verified |-> FALSE, credits |-> 0, adjust |-> FALSE]
    ELSE IF verdict
         THEN [status |-> "verified", verified |-> TRUE,
               credits |-> DefaultRewardPerPost, adjust |-> TRUE]
         ELSE [status |-> "pending", verified |-> FALSE, credits |-> 0, adjust |-> FALSE]

\* A new request is taken by the first free worker.
Takes(p) ==
    /\ proc[p].pc = "idle"
    /\ \A q \in Procs : q < p => proc[q].pc # "idle"

\* ------------------------------------------------------------ create_post
\* add_post(base_doc): the post row is written first, pending with 0 credits
AddPost(p, u, m) ==
    /\ Takes(p)
    /\ opCount < MaxOps
    /\ posts' = [x \in DOMAIN posts \cup {nextId} |->
                    IF x = nextId THEN PostRow(u, m) ELSE posts[x]]
    /\ nextId' = nextId + 1
    /\ opCount' = opCount + 1
    /\ proc' = [proc EXCEPT ![p] =
                  [Idle EXCEPT !.pc = "embed", !.op = "create", !.user = u,
                               !.post = nextId, !.media = m, !.bal0 = GetCredits(u),
                               !.prior = \E a \in accepted :
                                            /\ a \in DOMAIN posts
                                            /\ posts[a].user_id = u
                                            /\ posts[a].media = m]]
    /\ UNCHANGED <<scan, last, credits, embeddings, config, redeemed, deleted, accepted>>

\* embed_media: the hash embedding when offline or without credential, else
\* the service's vector, or the hash embedding when the call fails or is empty
EmbedMedia(p) ==
    /\ proc[p].pc = "embed"
    /\ \E r \in {SemEmbedding(proc[p].media), <<>>} :
          LET vector == IF offline_mode \/ ~gemini_api_key \/ r = <<>>
                        THEN HashEmbedding(proc[p].media, HashDims)
                        ELSE r
          IN  proc' = [proc EXCEPT ![p].pc = "dupscan", ![p].vector = vector]
    /\ UNCHANGED <<scan, last, posts, credits, embeddings, nextId, opCount, config,
                   redeemed, deleted, accepted>>

\* dup = await find_near_duplicate(vector, settings, user_id=payload.user_id)
DuplicateScan(p) ==
    /\ proc[p].pc = "dupscan"
    /\ LET dup == FindNearDuplicate(proc[p].vector, embeddings, DupThreshold, proc[p].user)
       IN  proc' = [proc EXCEPT ![p].dup = dup,
                                ![p].pc = IF dup # 0 THEN "dup_reject" ELSE "assess"]
    /\ UNCHANGED <<scan, last, posts, credits, embeddings, nextId, opCount, config,
                   redeemed, deleted, accepted>>

\* mutant: the early return after the duplicate rejection forgotten
RejectDuplicateContinues(p) ==
    /\ proc[p].pc = "dup_reject"
    /\ posts' = UpdatePost(posts, proc[p].post, "rejected", FALSE, 0)
    /\ proc' = [proc EXCEPT ![p].pc = "assess"]
    /\ UNCHANGED <<scan, last, credits, embeddings, nextId, opCount, config,
                   redeemed, deleted, accepted>>

\* if dup: update_post(rejected, credits 0) and return
RejectDuplicate(p) ==
    /\ proc[p].pc = "dup_reject"
    /\ posts' = UpdatePost(posts, proc[p].post, "rejected", FALSE, 0)
    /\ proc' = [proc EXCEPT ![p].pc = "done"]
    /\ UNCHANGED <<scan, last, credits, embeddings, nextId, opCount, config,
                   redeemed, deleted, accepted>>

\* verdict, notes = await assess_image_authenticity(media_bytes, settings)
AssessImageAuthenticity(p) ==
    /\ proc[p].pc = "assess"
    /\ \E out \in {[verdict |-> FALSE, notes |-> GeminiErrorNote]}
                   \cup {AssessText(t) : t \in GeminiTexts} :
          LET res == IF offline_mode \/ ~gemini_api_key
                     THEN [verdict |-> FALSE, notes |-> OfflineSentinel]
                     ELSE out
              unusable == Unusable(offline_mode, gemini_api_key, res.notes)
          IN  proc' = [proc EXCEPT ![p].verdict = res.verdict,
                                   ![p].unusable = unusable,
                                   ![p].calls = @ \cup {"assess"},
                                   ![p].pc = IF unusable THEN "remote" ELSE "update"]
    /\ UNCHANGED <<scan, last, posts, credits, embeddings, nextId, opCount, config,
                   redeemed, deleted, accepted>>

\* mutant: the last failed attempt raises instead of synthesizing an answer
CallAiServiceRaises(p) ==
    /\ proc[p].pc = "remote"
    /\ IF ~ai_service_url
       THEN proc' = [proc EXCEPT ![p].pc = "failed"]
       ELSE \E resp \in RemoteResponses :
               LET sent == [proc EXCEPT ![p].attempt = @ + 1,
                                        ![p].calls = @ \cup {"remote"},
                                        ![p].got200 = @ \/ resp.kind # "non200"]
               IN  IF resp.kind \in {"body", "empty"}
                   THEN proc' = [sent EXCEPT ![p].ai = resp, ![p].pc = "update"]
                   ELSE IF proc[p].attempt < Attempts - 1
                   THEN proc' = [sent EXCEPT ![p].slept = @ + 1]
                   ELSE proc' = [sent EXCEPT ![p].pc = "failed"]
    /\ UNCHANGED <<scan, last, posts, credits, embeddings, nextId, opCount, config,
                   redeemed, deleted, accepted>>

\* mutant: one request more than the configured number of attempts
CallAiServiceOneMore(p) ==
    /\ proc[p].pc = "remote"
    /\ IF ~ai_service_url
       THEN proc' = [proc EXCEPT ![p].ai = NoAi, ![p].pc = "update"]
       ELSE \E resp \in RemoteResponses :
               LET sent == [proc EXCEPT ![p].attempt = @ + 1,
                                        ![p].calls = @ \cup {"remote"},
                                        ![p].got200 = @ \/ resp.kind # "non200"]
               IN  IF resp.kind \in {"body", "empty"}
                   THEN proc' = [sent EXCEPT ![p].ai = resp, ![p].pc = "update"]
                   ELSE IF proc[p].attempt < (Attempts + 1) - 1
                   THEN proc' = [sent EXCEPT ![p].slept = @ + 1]
                   ELSE proc' = [sent EXCEPT ![p].ai = Synthesized, ![p].pc = "update"]
    /\ UNCHANGED <<scan, last, posts, credits, embeddings, nextId, opCount, config,
                   redeemed, deleted, accepted>>

\* call_ai_service: None without a URL; else one request per step inside the
\* try block: the decoded body of a 200 is returned; a non-200, an exception
\* or a 200 whose body resp.json() cannot decode is a failed attempt, followed
\* by asyncio.sleep(2) unless it was the last; after the last failed attempt
\* the synthesized answer is returned
CallAiService(p) ==
    /\ proc[p].pc = "remote"
    /\ IF ~ai_service_url
       THEN proc' = [proc EXCEPT ![p].ai = NoAi, ![p].pc = "update"]
       ELSE \E resp \in RemoteResponses :
               LET sent == [proc EXCEPT ![p].attempt = @ + 1,
                                        ![p].calls = @ \cup {"remote"},
                                        ![p].got200 = @ \/ resp.kind # "non200"]
               IN  IF resp.kind \in {"body", "empty"}
                   THEN proc' = [sent EXCEPT ![p].ai = resp, ![p].pc = "update"]
                   ELSE IF proc[p].attempt < Attempts - 1
                   THEN proc' = [sent EXCEPT ![p].slept = @ + 1]
                   ELSE proc' = [sent EXCEPT ![p].ai = Synthesized, ![p].pc = "update"]
    /\ UNCHANGED <<scan, last, posts, credits, embeddings, nextId, opCount, config,
                   redeemed, deleted, accepted>>

\* mutant: the status written but adjust_credits never called
UpdateStatusNoAdjust(p) ==
    /\ proc[p].pc = "update"
    /\ LET dec == StatusDecision(proc[p].unusable, proc[p].verdict, proc[p].ai)
       IN  /\ posts' = UpdatePost(posts, proc[p].post, dec.status, dec.verified, dec.credits)
           /\ proc' = [proc EXCEPT ![p].pc = "save"]
    /\ UNCHANGED <<scan, last, credits, embeddings, nextId, opCount, config,
                   redeemed, deleted, accepted>>

\* the update_post of the branch taken, then adjust_credits if it applies
UpdateStatus(p) ==
    /\ proc[p].pc = "update"
    /\ LET dec == StatusDecision(proc[p].unusable, proc[p].verdict, proc[p].ai)
       IN  /\ posts' = UpdatePost(posts, proc[p].post, dec.status, dec.verified, dec.credits)
           /\ proc' = [proc EXCEPT ![p].delta = IF dec.adjust THEN dec.credits ELSE 0,
                                   ![p].pc = IF dec.adjust THEN "adj_read" ELSE "save"]
    /\ UNCHANGED <<scan, last, credits, embeddings, nextId, opCount, config,
                   redeemed, deleted, accepted>>

\* mutant: the vector written twice
SaveEmbeddingTwice(p) ==
    /\ proc[p].pc = "save"
    /\ LET rec == [post_id |-> proc[p].post, user_id |-> proc[p].user,
                   vector |-> proc[p].vector]
       IN  embeddings' = Append(Append(embeddings, rec), rec)
    /\ accepted' = accepted \cup {proc[p].post}
    /\ proc' = [proc EXCEPT ![p].pc = "done", ![p].calls = @ \cup {"save"}]
    /\ UNCHANGED <<scan, last, posts, credits, nextId, opCount, config, redeemed, deleted>>

\* mutant: the run completes without writing its vector
SaveEmbeddingSkipped(p) ==
    /\ proc[p].pc = "save"
    /\ accepted' = accepted \cup {proc[p].post}
    /\ proc' = [proc EXCEPT ![p].pc = "done", ![p].calls = @ \cup {"save"}]
    /\ UNCHANGED <<scan, last, posts, credits, embeddings, nextId, opCount, config, redeemed, deleted>>

\* await save_embedding(post_id, payload.user_id, vector, settings)
SaveEmbedding(p) ==
    /\ proc[p].pc = "save"
    /\ embeddings' = Append(embeddings,
                            [post_id |-> proc[p].post, user_id |-> proc[p].user,
                             vector |-> proc[p].vector])
    /\ accepted' = accepted \cup {proc[p].post}
    /\ proc' = [proc EXCEPT ![p].pc = "done", ![p].calls = @ \cup {"save"}]
    /\ UNCHANGED <<scan, last, posts, credits, nextId, opCount, config, redeemed, deleted>>

\* --------------------------------------------------------- adjust_credits
\* SELECT credits FROM credits WHERE user_id = %s
AdjustRead(p) ==
    /\ proc[p].pc = "adj_read"
    /\ proc' = [proc EXCEPT ![p].cur = GetCredits(proc[p].user),
                            ![p].row = proc[p].user \in DOMAIN credits,
                            ![p].calls = @ \cup {"adjust"},
                            ![p].pc = "adj_write"]
    /\ UNCHANGED <<scan, last, posts, credits, embeddings, nextId, opCount, config,
                   redeemed, deleted, accepted>>

\* UPDATE (row seen) or INSERT (no row seen) of max(0, current + delta), and
\* commit; an INSERT that meets a row committed meanwhile violates the
\* primary key and the request fails
AdjustWrite(p) ==
    /\ proc[p].pc = "adj_write"
    /\ LET u == proc[p].user
           new_val == NewBalance(proc[p].cur, proc[p].delta)
       IN  IF ~proc[p].row /\ u \in DOMAIN credits
           THEN /\ proc' = [proc EXCEPT ![p].pc = "failed"]
                /\ UNCHANGED credits
           ELSE /\ credits' = [x \in DOMAIN credits \cup {u} |->
                                  IF x = u THEN new_val ELSE credits[x]]
                /\ proc' = [proc EXCEPT ![p].ret = new_val,
                                        ![p].pc = IF proc[p].op = "create"
                                                  THEN "save" ELSE "done"]
    /\ UNCHANGED <<scan, last, posts, embeddings, nextId, opCount, config,
                   redeemed, deleted, accepted>>

\* ----------------------------------------------------------- approve_post
\* mutant: the whole new amount taken as the delta
ApproveReadFullAmount(p, id, c) ==
    /\ Takes(p)
    /\ opCount < MaxOps
    /\ id \in DOMAIN posts
    /\ opCount' = opCount + 1
    /\ proc' = [proc EXCEPT ![p] =
                  [Idle EXCEPT !.pc = "approve_update", !.op = "approve",
                               !.post = id, !.user = posts[id].user_id,
                               !.arg = c,
                               !.newc = Max0(c),
                               !.delta = Max0(c),
                               !.bal0 = GetCredits(posts[id].user_id)]]
    /\ UNCHANGED <<scan, last, posts, credits, embeddings, nextId, config,
                   redeemed, deleted, accepted>>

\* existing = get_post(post_id); new_credits, old_credits, delta
ApproveRead(p, id, c) ==
    /\ Takes(p)
    /\ opCount < MaxOps
    /\ id \in DOMAIN posts
    /\ opCount' = opCount + 1
    /\ proc' = [proc EXCEPT ![p] =
                  [Idle EXCEPT !.pc = "approve_update", !.op = "approve",
                               !.post = id, !.user = posts[id].user_id,
                               !.arg = c,
                               !.newc = Max0(c),
                               !.delta = Max0(c) - posts[id].credits_awarded,
                               !.bal0 = GetCredits(posts[id].user_id)]]
    /\ UNCHANGED <<scan, last, posts, credits, embeddings, nextId, config,
                   redeemed, deleted, accepted>>

\* update_post(verified, new_credits); if delta != 0: adjust_credits(delta)
ApproveUpdate(p) ==
    /\ proc[p].pc = "approve_update"
    /\ posts' = UpdatePost(posts, proc[p].post, "verified", TRUE, proc[p].newc)
    /\ proc' = [proc EXCEPT ![p].pc = IF proc[p].delta # 0 THEN "adj_read" ELSE "done"]
    /\ UNCHANGED <<scan, last, credits, embeddings, nextId, opCount, config,
                   redeemed, deleted, accepted>>

\* ------------------------------------------------------------ reject_post
\* existing = get_post(post_id); old_credits
RejectRead(p, id) ==
    /\ Takes(p)
    /\ opCount < MaxOps
    /\ id \in DOMAIN posts
    /\ opCount' = opCount + 1
    /\ proc' = [proc EXCEPT ![p] =
                  [Idle EXCEPT !.pc = "reject_update", !.op = "reject",
                               !.post = id, !.user = posts[id].user_id,
                               !.delta = -posts[id].credits_awarded,
                               !.bal0 = GetCredits(posts[id].user_id)]]
    /\ UNCHANGED <<scan, last, posts, credits, embeddings, nextId, config,
                   redeemed, deleted, accepted>>

\* mutant: the post rejected but the ledger never adjusted
RejectUpdateKeepsLedger(p) ==
    /\ proc[p].pc = "reject_update"
    /\ posts' = UpdatePost(posts, proc[p].post, "rejected", FALSE, 0)
    /\ proc' = [proc EXCEPT ![p].pc = "done"]
    /\ UNCHANGED <<scan, last, credits, embeddings, nextId, opCount, config,
                   redeemed, deleted, accepted>>

\* update_post(rejected, 0); if old_credits: adjust_credits(-old_credits)
RejectUpdate(p) ==
    /\ proc[p].pc = "reject_update"
    /\ posts' = UpdatePost(posts, proc[p].post, "rejected", FALSE, 0)
    /\ proc' = [proc EXCEPT ![p].pc = IF proc[p].delta # 0 THEN "adj_read" ELSE "done"]
    /\ UNCHANGED <<scan, last, credits, embeddings, nextId, opCount, config,
                   redeemed, deleted, accepted>>

\* ------------------------------------------------------------ delete_post
\* delete_post_record: the post row and its embeddings, in one transaction
DeletePost(p, id) ==
    /\ Takes(p)
    /\ opCount < MaxOps
    /\ id \in 1..(nextId - 1)
    /\ opCount' = opCount + 1
    /\ posts' = [x \in DOMAIN posts \ {id} |-> posts[x]]
    /\ embeddings' = SelectSeq(embeddings, LAMBDA e : e.post_id # id)
    /\ deleted' = TRUE
    /\ accepted' = accepted \ {id}
    /\ UNCHANGED <<scan, last, credits, nextId, config, proc, redeemed>>

\* ----------------------------------------------------------------- redeem
\* current = get_credits(user_id); 400 if amount > current; else
\* adjust_credits(user_id, -abs(amount))
Redeem(p, u, amount) ==
    /\ Takes(p)
    /\ opCount < MaxOps
    /\ ~(amount > GetCredits(u))
    /\ opCount' = opCount + 1
    /\ redeemed' = TRUE
    /\ proc' = [proc EXCEPT ![p] =
                  [Idle EXCEPT !.pc = "adj_read", !.op = "redeem", !.user = u,
                               !.arg = amount,
                               !.delta = -Abs(amount), !.bal0 = GetCredits(u)]]
    /\ UNCHANGED <<scan, last, posts, credits, embeddings, nextId, config, deleted, accepted>>

\* the handler returns (or raises) and the worker takes the next request
Return(p) ==
    /\ proc[p].pc \in {"done", "failed"}
    /\ proc' = [proc EXCEPT ![p] = Idle]
    /\ last' = IF proc[p].op = "approve" /\ proc[p].pc = "done" THEN proc[p] ELSE Idle
    /\ UNCHANGED <<scan, posts, credits, embeddings, nextId, opCount, config,
                   redeemed, deleted, accepted>>

\* ------------------------------------------------------- specifications
Step(p) ==
    \/ \E s \in Submissions : AddPost(p, s[1], s[2])
    \/ EmbedMedia(p)
    \/ DuplicateScan(p)
    \/ RejectDuplicate(p)
    \/ AssessImageAuthenticity(p)
    \/ CallAiService(p)
    \/ UpdateStatus(p)
    \/ SaveEmbedding(p)
    \/ AdjustRead(p)
    \/ AdjustWrite(p)
    \/ \E id \in 1..MaxOps, c \in ApproveCredits : ApproveRead(p, id, c)
    \/ ApproveUpdate(p)
    \/ \E id \in 1..MaxOps : RejectRead(p, id)
    \/ RejectUpdate(p)
    \/ \E id \in 1..MaxOps : DeletePost(p, id)
    \/ \E u \in Users, a \in RedeemAmounts : Redeem(p, u, a)
    \/ Return(p)

\* A finished handler returns before any other handler takes its next step:
\* Return touches nothing but the handler's own locals, which no other
\* handler reads, so every interleaving has an equivalent one of this form.
NoneFinished(p) == \A q \in Procs \ {p} : proc[q].pc \notin {"done", "failed"}

Next == \E p \in Procs : NoneFinished(p) /\ Step(p)

Spec == Init /\ [][Next]_vars

\* one request at a time, all served by the first worker
FirstWorker == CHOOSE p \in Procs : \A q \in Procs : p <= q

SeqNext == Step(FirstWorker)

SeqSpec == Init /\ [][SeqNext]_vars

\* ---------------------------------------------- the ledger on its own
\* Some handler calls adjust_credits(u, d); the calls of different workers
\* interleave statement by statement.
LedgerDeltas == {-15, -1, 1, 10}

AdjustCall(p, u, d) ==
    /\ Takes(p)
    /\ opCount < MaxOps
    /\ opCount' = opCount + 1
    /\ proc' = [proc EXCEPT ![p] =
                  [Idle EXCEPT !.pc = "adj_read", !.op = "adjust", !.user = u,
                               !.delta = d, !.bal0 = GetCredits(u)]]
    /\ UNCHANGED <<scan, last, posts, credits, embeddings, nextId, config, redeemed, deleted, accepted>>

LedgerStep(p) ==
    \/ \E u \in Users, d \in LedgerDeltas : AdjustCall(p, u, d)
    \/ AdjustRead(p)
    \/ AdjustWrite(p)
    \/ Return(p)

LedgerNext == \E p \in Procs : LedgerStep(p)

\* the ledger empty, or holding the row a first verified post leaves
LedgerInit ==
    /\ posts = <<>>
    /\ credits \in {<<>>, [u \in {"u1"} |-> DefaultRewardPerPost]}
    /\ embeddings = <<>>
    /\ nextId = 1
    /\ opCount = 0
    /\ offline_mode = FALSE
    /\ gemini_api_key = TRUE
    /\ ai_service_url = FALSE
    /\ proc = [p \in Procs |-> Idle]
    /\ redeemed = FALSE
    /\ deleted = FALSE
    /\ accepted = {}
    /\ scan = NoScan
    /\ last = Idle

LedgerSpec == LedgerInit /\ [][LedgerNext]_vars

\* ------------------------------------------ a duplicate search on its own
\* find_near_duplicate of the backend and search_vectors of the verification
\* service, each called once on a drawn store, query, owner and threshold.
\* Largest number of stored records.
MaxStore == 2

\* stored and query vectors: two orthogonal ones, one close to the first,
\* and one of another dimensionality
ScanVectors == {<<1, 0>>, <<0, 1>>, <<3, 1>>, <<1>>}

\* 0.80 (the value both services pass), 0 and -1/2
ScanThresholds == {DupThreshold, ZeroScore, [d |-> -1, q |-> 4]}

\* the kind column of the verification service's embeddings table
Kinds == {"mobilenet", "phash"}

\* num / (norm(vec) * norm(stored) + 1e-9): the sign and the order of the
\* cosine, and 0 for a zero norm
AiScore(vec, stored) ==
    IF Dot(vec, vec) = 0 \/ Dot(stored, stored) = 0 THEN ZeroScore
    ELSE [d |-> Dot(vec, stored), q |-> Dot(vec, vec) * Dot(stored, stored)]

\* SELECT post_id, vector FROM embeddings WHERE user_id = %s AND kind = %s
SelectRows(rows, user_id, kind) ==
    SelectSeq(rows, LAMBDA r : r.user_id = user_id /\ r.kind = kind)

\* the loop of search_vectors: a row of another shape is skipped
RECURSIVE ScanRows(_, _, _, _, _, _)
ScanRows(rows, i, vec, thresh, best, best_score) ==
    IF i > Len(rows) THEN best
    ELSE IF Len(rows[i].vector) # Len(vec)
    THEN ScanRows(rows, i + 1, vec, thresh, best, best_score)
    ELSE LET score == AiScore(vec, rows[i].vector)
         IN  IF ScoreGT(score, thresh) /\ ScoreGT(score, best_score)
             THEN ScanRows(rows, i + 1, vec, thresh, rows[i].post_id, score)
             ELSE ScanRows(rows, i + 1, vec, thresh, best, best_score)

\* 0 stands for None
SearchVectors(rows, user_id, vec, kind, thresh) ==
    ScanRows(SelectRows(rows, user_id, kind), 1, vec, thresh, 0, ZeroScore)

\* the tables as earlier requests may have left them: every record has a
\* post id of its own, in storage order
ScanInit ==
    /\ posts = <<>>
    /\ credits = <<>>
    /\ nextId = 1
    /\ opCount = 0
    /\ offline_mode = FALSE
    /\ gemini_api_key = TRUE
    /\ ai_service_url = TRUE
    /\ proc = [p \in Procs |-> Idle]
    /\ redeemed = FALSE
    /\ deleted = FALSE
    /\ accepted = {}
    /\ last = Idle
    /\ \E n \in 0..MaxStore, q \in ScanVectors, u \in Users, th \in ScanThresholds :
          \/ \E f \in [1..n -> Users \X ScanVectors] :
                /\ embeddings = [i \in 1..n |->
                                   [post_id |-> i, user_id |-> f[i][1], vector |-> f[i][2]]]
                /\ scan = [pc |-> "call", service |-> "backend", rows |-> <<>>,
                           vector |-> q, user_id |-> u, kind |-> "none",
                           threshold |-> th, best |-> 0]
          \/ \E f \in [1..n -> Users \X Kinds \X ScanVectors], k \in Kinds :
                /\ embeddings = <<>>
                /\ scan = [pc |-> "call", service |-> "ai",
                           rows |-> [i \in 1..n |->
                                       [post_id |-> i, user_id |-> f[i][1],
                                        kind |-> f[i][2], vector |-> f[i][3]]],
                           vector |-> q, user_id |-> u, kind |-> k,
                           threshold |-> th, best |-> 0]

\* dup = await find_near_duplicate(vector, settings, threshold, user_id)
FindNearDuplicateCall ==
    /\ scan.pc = "call" /\ scan.service = "backend"
    /\ scan' = [scan EXCEPT !.pc = "returned",
                            !.best = FindNearDuplicate(scan.vector, embeddings,
                                                       scan.threshold, scan.user_id)]
    /\ UNCHANGED <<posts, credits, embeddings, nextId, opCount, config, proc,
                   redeemed, deleted, accepted, last>>

\* dup = search_vectors(user_id, vec, kind, thresh)
SearchVectorsCall ==
    /\ scan.pc = "call" /\ scan.service = "ai"
    /\ scan' = [scan EXCEPT !.pc = "returned",
                            !.best = SearchVectors(scan.rows, scan.user_id, scan.vector,
                                                   scan.kind, scan.threshold)]
    /\ UNCHANGED <<posts, credits, embeddings, nextId, opCount, config, proc,
                   redeemed, deleted, accepted, last>>

ScanNext == FindNearDuplicateCall \/ SearchVectorsCall

ScanSpec == ScanInit /\ [][ScanNext]_vars

\* ------------------------------------------------- moderation on its own
\* approve_post, reject_post and redeem, one request at a time, on a database
\* that holds one post as a completed create_post leaves it: each of the
\* decisions of StatusDecision, with the ledger row that goes with it.
OnePostStates ==
    {[status |-> d.status, verified |-> d.verified, credits_awarded |-> d.credits,
      credited |-> d.adjust] :
        d \in {StatusDecision(FALSE, v, NoAi) : v \in BOOLEAN}
               \cup {StatusDecision(TRUE, FALSE, ai) : ai \in RemoteBodies \cup {NoAi}}}

ModerationInit ==
    /\ \E st \in OnePostStates :
          /\ posts = [x \in {1} |->
                        [PostRow("u1", "m1") EXCEPT !.status = st.status,
                                                    !.verified = st.verified,
                                                    !.credits_awarded = st.credits_awarded]]
          /\ credits = IF st.credited
                       THEN [u \in {"u1"} |-> NewBalance(0, st.credits_awarded)]
                       ELSE <<>>
    /\ embeddings = <<[post_id |-> 1, user_id |-> "u1",
                       vector |-> HashEmbedding("m1", HashDims)]>>
    /\ nextId = 2
    /\ opCount = 0
    /\ offline_mode = FALSE
    /\ gemini_api_key = FALSE
    /\ ai_service_url = TRUE
    /\ proc = [p \in Procs |-> Idle]
    /\ redeemed = FALSE
    /\ deleted = FALSE
    /\ accepted = {1}
    /\ scan = NoScan
    /\ last = Idle

ModerationStep(p) ==
    \/ \E id \in 1..MaxOps, c \in ApproveCredits : ApproveRead(p, id, c)
    \/ ApproveUpdate(p)
    \/ \E id \in 1..MaxOps : RejectRead(p, id)
    \/ RejectUpdate(p)
    \/ \E u \in Users, a \in RedeemAmounts : Redeem(p, u, a)
    \/ AdjustRead(p)
    \/ AdjustWrite(p)
    \/ Return(p)

ModerationNext == ModerationStep(FirstWorker)

ModerationSpec == ModerationInit /\ [][ModerationNext]_vars

\* ------------------------------------- the remote client on its own
\* call_ai_service called by some handler; every request ends (the client
\* has a timeout of AI_SERVICE_TIMEOUT seconds) and every sleep ends, so a
\* call in progress always takes its next step.
ClientInit ==
    /\ posts = <<>>
    /\ credits = <<>>
    /\ embeddings = <<>>
    /\ nextId = 1
    /\ opCount = 0
    /\ offline_mode = FALSE
    /\ gemini_api_key = FALSE
    /\ ai_service_url \in BOOLEAN
    /\ proc = [p \in Procs |-> Idle]
    /\ redeemed = FALSE
    /\ deleted = FALSE
    /\ accepted = {}
    /\ scan = NoScan
    /\ last = Idle

\* ai_result = await call_ai_service(media_bytes, payload.user_id, post_id)
ClientCall(p, u, m) ==
    /\ Takes(p)
    /\ opCount < MaxOps
    /\ opCount' = opCount + 1
    /\ proc' = [proc EXCEPT ![p] =
                  [Idle EXCEPT !.pc = "remote", !.op = "create", !.user = u,
                               !.media = m, !.unusable = TRUE]]
    /\ UNCHANGED <<scan, last, posts, credits, embeddings, nextId, config,
                   redeemed, deleted, accepted>>

\* the caller has its answer
ClientReturn(p) ==
    /\ proc[p].pc \in {"update", "failed"}
    /\ proc' = [proc EXCEPT ![p] = Idle]
    /\ UNCHANGED <<scan, last, posts, credits, embeddings, nextId, opCount, config,
                   redeemed, deleted, accepted>>

ClientStep(p) ==
    \/ \E sub \in Submissions : ClientCall(p, sub[1], sub[2])
    \/ CallAiService(p)
    \/ ClientReturn(p)

ClientNext == \E p \in Procs : ClientStep(p)

ClientSpec ==
    ClientInit /\ [][ClientNext]_vars /\ \A p \in Procs : WF_vars(CallAiService(p))

\* --------------------------------------------- ingestion of the media
\* create_post from the request text on: payload.media_base64 as a sequence
\* of characters, "Q" and "U" of the base64 alphabet and "!" outside it.
B64Alphabet == {"Q", "U"}

\* request texts: two well-formed ones, one cut short, one well-formed one
\* with a character outside the alphabet appended, one with both defects
Base64Texts ==
    {<<"Q", "Q", "Q", "Q">>, <<"U", "U", "U", "U">>, <<"Q", "Q">>,
     <<"Q", "Q", "Q", "Q", "!">>, <<"!", "Q">>}

\* base64.b64decode(s) with validate=False: characters outside the alphabet
\* are discarded before the padding check
Discarded(t) == SelectSeq(t, LAMBDA c : c \in B64Alphabet)

\* ... and binascii.Error unless what is left comes in groups of four
B64DecodeRaises(t) == Len(Discarded(t)) % 4 # 0

\* the decoded bytes, as a media blob
B64Decode(t) == IF Discarded(t)[1] = "Q" THEN "m1" ELSE "m2"

\* lines 59-88 of create_post: 400 if the decoding raises, else add_post
CreatePost(p, u, text) ==
    /\ Takes(p)
    /\ opCount < MaxOps
    /\ opCount' = opCount + 1
    /\ IF B64DecodeRaises(text)
       THEN /\ proc' = [proc EXCEPT ![p] =
                          [Idle EXCEPT !.pc = "failed", !.op = "create", !.user = u,
                                       !.b64 = text, !.bal0 = GetCredits(u)]]
            /\ UNCHANGED <<posts, nextId>>
       ELSE /\ posts' = [x \in DOMAIN posts \cup {nextId} |->
                           IF x = nextId THEN PostRow(u, B64Decode(text)) ELSE posts[x]]
            /\ nextId' = nextId + 1
            /\ proc' = [proc EXCEPT ![p] =
                          [Idle EXCEPT !.pc = "embed", !.op = "create", !.user = u,
                                       !.post = nextId, !.media = B64Decode(text),
                                       !.b64 = text, !.bal0 = GetCredits(u)]]
    /\ UNCHANGED <<scan, last, credits, embeddings, config, redeemed, deleted, accepted>>

IngestStep(p) ==
    \/ \E u \in Users, text \in Base64Texts : CreatePost(p, u, text)
    \/ EmbedMedia(p)
    \/ DuplicateScan(p)
    \/ RejectDuplicate(p)
    \/ AssessImageAuthenticity(p)
    \/ CallAiService(p)
    \/ UpdateStatus(p)
    \/ SaveEmbedding(p)
    \/ AdjustRead(p)
    \/ AdjustWrite(p)
    \/ Return(p)

IngestNext == IngestStep(FirstWorker)

IngestSpec == Init /\ [][IngestNext]_vars

\* ================================================================ claims
W == FirstWorker

RECURSIVE SumCredits(_, _)
SumCredits(ids, u) ==
    IF ids = {} THEN 0
    ELSE LET i == CHOOSE x \in ids : TRUE
         IN  (IF posts[i].user_id = u THEN posts[i].credits_awarded ELSE 0)
             + SumCredits(ids \ {i}, u)

\* a finished create_post run of the sequential worker
CreateDone == proc[W].pc = "done" /\ proc[W].op = "create"

\* ... that passed the duplicate check
PassedDone == CreateDone /\ proc[W].dup = 0

MyPost == posts[proc[W].post]

Persisted(post_id, vector) ==
    \E i \in 1..Len(embeddings) :
        embeddings[i].post_id = post_id /\ embeddings[i].vector = vector

\* C1: with no request in flight, no redemption and no deletion so far, every
\* owner's ledger balance is the sum of credits_awarded over the owner's posts.
C1_LedgerMatchesPosts ==
    (proc[W].pc = "idle" /\ ~redeemed /\ ~deleted)
        => \A u \in Users : GetCredits(u) = SumCredits(DOMAIN posts, u)

\* C2: every stored balance is >= 0, and every adjust_credits call stores and
\* returns max(0, balance read + delta), a missing row reading as 0.
C2_Floor ==
    /\ [](\A u \in DOMAIN credits : credits[u] >= 0)
    /\ [][\A p \in Procs :
            (proc[p].pc = "adj_write" /\ proc'[p].pc = "done")
                => /\ proc'[p].ret = (IF proc[p].cur + proc[p].delta > 0
                                      THEN proc[p].cur + proc[p].delta ELSE 0)
                   /\ proc[p].user \in DOMAIN credits'
                   /\ credits'[proc[p].user] = proc'[p].ret
                   /\ (~proc[p].row => proc[p].cur = 0)]_vars

\* a call with a delta more negative than the balance, on a user without a row
C2_Witness ==
    \E p \in Procs :
        /\ proc[p].pc = "done" /\ proc[p].op = "adjust"
        /\ ~proc[p].row /\ proc[p].cur + proc[p].delta < 0
        /\ proc[p].ret = 0
        /\ proc[p].user \in DOMAIN credits /\ credits[proc[p].user] = 0

\* C3: two finished adjust_credits calls on one user that both saw balance b
\* when called leave the balance that the two calls give one after the other,
\* in one of the two orders.
Serial(b, d1, d2) == Max0(Max0(b + d1) + d2)

C3_NoLostUpdate ==
    \A p, q \in Procs :
        (/\ p # q
         /\ proc[p].op = "adjust" /\ proc[q].op = "adjust"
         /\ proc[p].pc = "done" /\ proc[q].pc = "done"
         /\ proc[p].user = proc[q].user
         /\ proc[p].bal0 = proc[q].bal0)
            => GetCredits(proc[p].user) \in
                   {Serial(proc[p].bal0, proc[p].delta, proc[q].delta),
                    Serial(proc[p].bal0, proc[q].delta, proc[p].delta)}

\* C4: no two posts of one owner with the same media, whose runs computed the
\* same vector and both completed, are both left with a status other than
\* rejected.
C4_NoTwinAccepted ==
    \A a, b \in 1..Len(embeddings) :
        (/\ a < b
         /\ embeddings[a].user_id = embeddings[b].user_id
         /\ embeddings[a].vector = embeddings[b].vector
         /\ embeddings[a].post_id # embeddings[b].post_id
         /\ embeddings[a].post_id \in DOMAIN posts
         /\ embeddings[b].post_id \in DOMAIN posts
         /\ posts[embeddings[a].post_id].media = posts[embeddings[b].post_id].media
         /\ \A p \in Procs : proc[p].pc = "idle")
            => \/ posts[embeddings[a].post_id].status = "rejected"
               \/ posts[embeddings[b].post_id].status = "rejected"

\* C5: a create_post of owner U with media M that starts after an earlier run
\* of U with M completed without a duplicate rejection (that post still
\* existing) ends rejected with 0 credits and the ledger as it was.
C5_ResubmissionRejected ==
    (CreateDone /\ proc[W].prior)
        => /\ MyPost.status = "rejected"
           /\ MyPost.credits_awarded = 0
           /\ GetCredits(proc[W].user) = proc[W].bal0

\* C6: a run whose duplicate check found a match leaves the post rejected with
\* 0 credits, has called neither the assessor nor the remote service nor
\* adjust_credits, and leaves the owner's balance as it was.
C6_DuplicateStops ==
    (CreateDone /\ proc[W].dup # 0)
        => /\ MyPost.status = "rejected"
           /\ MyPost.credits_awarded = 0
           /\ proc[W].calls = {}
           /\ GetCredits(proc[W].user) = proc[W].bal0

C6_Witness ==
    /\ CreateDone /\ proc[W].dup # 0
    /\ MyPost.status = "rejected"
    /\ proc[W].bal0 > 0

\* C7: a non-duplicate run with a usable assessor ends verified with the
\* configured reward, the ledger raised by exactly the reward, when the
\* verdict is true, and pending with 0 credits and the ledger unchanged
\* when it is false.
C7_VerdictDecides ==
    (PassedDone /\ ~proc[W].unusable)
        => IF proc[W].verdict
           THEN /\ MyPost.status = "verified"
                /\ MyPost.credits_awarded = DefaultRewardPerPost
                /\ GetCredits(proc[W].user) = proc[W].bal0 + DefaultRewardPerPost
           ELSE /\ MyPost.status = "pending"
                /\ MyPost.credits_awarded = 0
                /\ GetCredits(proc[W].user) = proc[W].bal0

C7_Witness ==
    /\ PassedDone /\ ~proc[W].unusable /\ proc[W].verdict
    /\ MyPost.status = "verified"
    /\ proc[W].bal0 > 0

\* C8: with an unusable assessor and an HTTP 200 answer of the remote service
\* the post holds the returned status and credits_awarded, adjust_credits is
\* called exactly when the status is verified and the credit positive, and
\* the ledger moved by that credit or not at all.
C8_RemoteVerbatim ==
    (PassedDone /\ proc[W].unusable /\ proc[W].ai.kind \in {"body", "empty"})
        => LET ai == proc[W].ai
               credit == ai.status = "verified" /\ ai.credits > 0
           IN  /\ MyPost.status = (IF ai.status = "absent" THEN "pending" ELSE ai.status)
               /\ MyPost.credits_awarded = ai.credits
               /\ ("adjust" \in proc[W].calls) <=> credit
               /\ GetCredits(proc[W].user) =
                      proc[W].bal0 + (IF credit THEN ai.credits ELSE 0)

C8_Witness ==
    /\ PassedDone /\ proc[W].unusable /\ proc[W].ai.kind = "body"
    /\ proc[W].ai.status = "verified" /\ proc[W].ai.credits > 0
    /\ "adjust" \in proc[W].calls
    /\ proc[W].bal0 > 0

\* C9: with an unusable assessor and the remote service unconfigured or
\* failing in every attempt the run does not raise, and the post ends
\* pending with 0 credits and the ledger unchanged.
RemoteUnavailable ==
    /\ proc[W].op = "create" /\ proc[W].unusable
    /\ proc[W].pc # "remote"
    /\ proc[W].ai.kind \in {"none", "synth"}

C9_UnavailableIsPending ==
    RemoteUnavailable
        => /\ proc[W].pc # "failed"
           /\ proc[W].pc # "adj_read" /\ proc[W].pc # "adj_write"
           /\ "adjust" \notin proc[W].calls
           /\ proc[W].pc \in {"save", "done"}
                => /\ MyPost.status = "pending"
                   /\ MyPost.credits_awarded = 0
                   /\ GetCredits(proc[W].user) = proc[W].bal0

C9_Witness ==
    /\ RemoteUnavailable /\ proc[W].pc = "done"
    /\ proc[W].ai.kind = "synth" /\ proc[W].attempt = Attempts
    /\ MyPost.status = "pending"
    /\ proc[W].bal0 > 0

\* C10 as stated: in offline mode every non-duplicate submission ends pending
\* with 0 credits and no ledger credit, its vector persisted.
OfflineMode == offline_mode \/ ~gemini_api_key

RecordsOf(post_id) ==
    Cardinality({i \in 1..Len(embeddings) : embeddings[i].post_id = post_id})

\* C11: the embeddings store holds exactly one record for every post whose
\* run passed the duplicate check and completed and none for any other post
\* (so none for a post rejected by the duplicate check), and a record is
\* written only by a run that has already written its status decision and
\* applied the ledger credit that goes with it.
C11_OneRecordPerPost ==
    /\ [](/\ \A id \in DOMAIN posts :
               RecordsOf(id) = (IF id \in accepted THEN 1 ELSE 0)
          /\ (CreateDone /\ proc[W].dup # 0) => RecordsOf(proc[W].post) = 0
          /\ PassedDone => RecordsOf(proc[W].post) = 1)
    /\ [][Len(embeddings') > Len(embeddings)
            => LET dec == StatusDecision(proc[W].unusable, proc[W].verdict, proc[W].ai)
               IN  /\ proc[W].pc = "save" /\ proc[W].dup = 0
                   /\ embeddings'[Len(embeddings')].post_id = proc[W].post
                   /\ posts[proc[W].post].status = dec.status
                   /\ posts[proc[W].post].credits_awarded = dec.credits
                   /\ dec.adjust => /\ "adjust" \in proc[W].calls
                                    /\ GetCredits(proc[W].user) = proc[W].bal0 + dec.credits]_vars

\* a second submission rejected as a duplicate of a first, credited, one:
\* one record for the first post and none for the second
C11_Witness ==
    /\ CreateDone /\ proc[W].dup # 0
    /\ proc[W].dup \in accepted
    /\ posts[proc[W].dup].credits_awarded > 0
    /\ RecordsOf(proc[W].dup) = 1
    /\ RecordsOf(proc[W].post) = 0

\* the store a search on its own runs against, and the search as a function
\* of the store
ScanStore == IF scan.service = "backend" THEN embeddings ELSE scan.rows

Returned == scan.pc = "returned"

InScope(r) ==
    /\ r.user_id = scan.user_id
    /\ scan.service = "ai" => r.kind = scan.kind

SearchOn(store) ==
    IF scan.service = "backend"
    THEN FindNearDuplicate(scan.vector, store, scan.threshold, scan.user_id)
    ELSE SearchVectors(store, scan.user_id, scan.vector, scan.kind, scan.threshold)

\* C12: a returned match is a record of the searching owner (and, in the
\* verification service, of the requested kind), and the records of other
\* owners or kinds have no part in the result: the search returns what it
\* returns on the store without them.
C12_OwnerScoped ==
    Returned =>
        /\ scan.best # 0 =>
               \E i \in 1..Len(ScanStore) :
                   ScanStore[i].post_id = scan.best /\ InScope(ScanStore[i])
        /\ scan.best = SearchOn(SelectSeq(ScanStore, InScope))

\* the store holds the query's own vector for another owner (or kind) and
\* nothing similar for the searching owner: no match
C12_Witness ==
    /\ Returned /\ scan.best = 0
    /\ scan.threshold = DupThreshold
    /\ \E i \in 1..Len(ScanStore) :
          /\ ~InScope(ScanStore[i])
          /\ ScanStore[i].user_id # scan.user_id
          /\ ScanStore[i].vector = scan.vector

\* a stored record the search is allowed to compare with the query: in scope
\* and of the query's dimensionality
Comparable(r) == InScope(r) /\ Len(r.vector) = Len(scan.vector)

\* C13: a search returns a match if and only if some in-scope record of the
\* query's dimensionality has a cosine similarity strictly above the
\* threshold, whatever the threshold.
C13_MatchIffAbove ==
    Returned =>
        (scan.best # 0 <=>
            \E i \in 1..Len(ScanStore) :
                /\ Comparable(ScanStore[i])
                /\ ScoreGT(Cosine(scan.vector, ScanStore[i].vector), scan.threshold))

\* positions of the comparable records that score strictly above the threshold
Above ==
    {i \in 1..Len(ScanStore) :
        /\ Comparable(ScanStore[i])
        /\ ScoreGT(Cosine(scan.vector, ScanStore[i].vector), scan.threshold)}

\* ... and of those among them that no other one outscores
Greatest ==
    {i \in Above :
        \A j \in Above : ~ScoreGT(Cosine(scan.vector, ScanStore[j].vector),
                                   Cosine(scan.vector, ScanStore[i].vector))}

\* C14: when several records score above the threshold, the search returns
\* the one with the greatest score, and of several with that greatest score
\* the first in storage order.
C14_GreatestFirstSeen ==
    (Returned /\ Cardinality(Above) >= 2)
        => \E i \in Greatest :
              /\ \A j \in Greatest : i <= j
              /\ scan.best = ScanStore[i].post_id

SameShape(r) == Len(r.vector) = Len(scan.vector)

\* C15: a stored record of another dimensionality than the query is never
\* the returned match, and the search returns what it returns on the store
\* without such records, for every threshold (negative ones and 0 included).
C15_MismatchIgnored ==
    Returned =>
        /\ \A i \in 1..Len(ScanStore) :
               ScanStore[i].post_id = scan.best => SameShape(ScanStore[i])
        /\ scan.best = SearchOn(SelectSeq(ScanStore, SameShape))

\* a negative threshold, an in-scope record of another dimensionality stored
\* before the in-scope record that is returned
C15_Witness ==
    /\ Returned /\ scan.best = 2
    /\ scan.threshold.d < 0
    /\ Len(ScanStore) >= 2
    /\ InScope(ScanStore[1]) /\ ~SameShape(ScanStore[1])

\* a finished approve_post of the sequential worker
ApproveDone == proc[W].pc = "done" /\ proc[W].op = "approve"

\* the request read the post's previous credits_awarded and the owner's
\* balance, and took max(0, c) minus the former as the delta
ApproveTakesDelta ==
    (proc[W].pc = "idle" /\ proc'[W].op = "approve")
        => /\ proc'[W].post \in DOMAIN posts
           /\ proc'[W].user = posts[proc'[W].post].user_id
           /\ proc'[W].bal0 = GetCredits(proc'[W].user)
           /\ proc'[W].delta =
                 (IF proc'[W].arg > 0 THEN proc'[W].arg ELSE 0)
                     - posts[proc'[W].post].credits_awarded

\* C16 as stated: approve_post(p, c) leaves the post verified with
\* credits_awarded = max(0, c) and the owner's balance changed by exactly
\* max(0, c) minus the previous credits_awarded.
C16_ApproveExactDelta ==
    /\ [][ApproveTakesDelta]_vars
    /\ [](ApproveDone =>
            /\ MyPost.status = "verified" /\ MyPost.verified
            /\ MyPost.credits_awarded = (IF proc[W].arg > 0 THEN proc[W].arg ELSE 0)
            /\ GetCredits(proc[W].user) = proc[W].bal0 + proc[W].delta)

\* C16 amended: ... and the owner's balance is max(0, previous balance +
\* max(0, c) - previous credits_awarded); approving again with the same
\* amount has delta 0 and leaves the balance as it is.
C16_ApproveFlooredDelta ==
    /\ [][ApproveTakesDelta]_vars
    /\ [](ApproveDone =>
            /\ MyPost.status = "verified" /\ MyPost.verified
            /\ MyPost.credits_awarded = (IF proc[W].arg > 0 THEN proc[W].arg ELSE 0)
            /\ GetCredits(proc[W].user) =
                  (IF proc[W].bal0 + proc[W].delta > 0
                   THEN proc[W].bal0 + proc[W].delta ELSE 0)
            /\ proc[W].delta = 0 => "adjust" \notin proc[W].calls)

\* a post with 0 credits approved with 15: the balance is 15 higher
C16_Witness ==
    /\ ApproveDone /\ proc[W].arg = 15 /\ proc[W].delta = 15
    /\ MyPost.credits_awarded = 15 /\ MyPost.status = "verified"
    /\ GetCredits(proc[W].user) = proc[W].bal0 + 15

\* a finished reject_post of the sequential worker
RejectDone == proc[W].pc = "done" /\ proc[W].op = "reject"

\* the request read the post's previous credits_awarded and the owner's balance
RejectTakesOld ==
    (proc[W].pc = "idle" /\ proc'[W].op = "reject")
        => /\ proc'[W].post \in DOMAIN posts
           /\ proc'[W].user = posts[proc'[W].post].user_id
           /\ proc'[W].bal0 = GetCredits(proc'[W].user)
           /\ proc'[W].delta = -posts[proc'[W].post].credits_awarded

\* the reject_post follows an approve_post of the same post directly
AfterApprove ==
    /\ RejectDone
    /\ last.op = "approve" /\ last.post = proc[W].post

\* credits_awarded of the post before that approve_post
OldBeforeApprove == last.newc - last.delta

WithinAttempts ==
    \A p \in Procs : proc[p].attempt <= Attempts /\ proc[p].slept <= proc[p].attempt

\* a step that ends a call to a configured service: an answer and no
\* exception, after 1..Attempts requests with a sleep between any two of
\* them and none after the last; the answer is a decoded 200 body or, after
\* the last attempt only, the synthesized one
CallEnds ==
    \A p \in Procs :
        (ai_service_url /\ proc[p].pc = "remote" /\ proc'[p].pc # "remote")
            => /\ proc'[p].pc = "update"
               /\ proc'[p].attempt = proc[p].attempt + 1
               /\ proc'[p].attempt >= 1 /\ proc'[p].attempt <= Attempts
               /\ proc'[p].slept = proc'[p].attempt - 1
               /\ \/ proc'[p].ai \in RemoteBodies
                  \/ proc'[p].ai = Synthesized /\ proc'[p].attempt = Attempts

\* a step that leaves the call in progress: one failed request and one sleep
CallRetries ==
    \A p \in Procs :
        (proc[p].pc = "remote" /\ proc'[p].pc = "remote" /\ proc'[p] # proc[p])
            => /\ proc'[p].attempt = proc[p].attempt + 1
               /\ proc'[p].slept = proc[p].slept + 1
               /\ proc'[p].attempt < Attempts
               /\ proc'[p].ai = NoAi

PostStatuses == {"pending", "verified", "rejected"}

\* C19: in every reachable state every stored post has a status among
\* pending, verified and rejected, whatever the remote service answered.
C19_StatusEnum ==
    \A id \in DOMAIN posts : posts[id].status \in PostStatuses

\* well-formed base64: alphabet characters only, in groups of four
ValidBase64(t) ==
    /\ \A i \in 1..Len(t) : t[i] \in B64Alphabet
    /\ Len(t) % 4 = 0

\* C20: a create_post whose media text is not valid base64 fails at once:
\* no post row, no call to any service, no embedding and no ledger change.
C20_InvalidMediaRefused ==
    (proc[W].op = "create" /\ ~ValidBase64(proc[W].b64))
        => /\ proc[W].pc = "failed"
           /\ proc[W].post = 0
           /\ proc[W].calls = {}
           /\ GetCredits(proc[W].user) = proc[W].bal0

\* ------------------------------------------- persistence that can fail
\* db_conn: a statement that raises (statement_timeout, lost connection)
\* rolls its own transaction back and the exception leaves the handler; what
\* earlier calls of the same run committed stays.
PersistenceFails(p) ==
    /\ proc[p].op = "create"
    /\ proc[p].pc \in {"update", "adj_read", "adj_write", "save"}
    /\ proc' = [proc EXCEPT ![p].pc = "failed"]
    /\ UNCHANGED <<scan, last, posts, credits, embeddings, nextId, opCount, config,
                   redeemed, deleted, accepted>>

FaultStep(p) ==
    \/ \E s \in Submissions : AddPost(p, s[1], s[2])
    \/ EmbedMedia(p)
    \/ DuplicateScan(p)
    \/ RejectDuplicate(p)
    \/ AssessImageAuthenticity(p)
    \/ CallAiService(p)
    \/ UpdateStatus(p)
    \/ SaveEmbedding(p)
    \/ AdjustRead(p)
    \/ AdjustWrite(p)
    \/ PersistenceFails(p)
    \/ Return(p)

FaultNext == FaultStep(FirstWorker)

FaultSpec == Init /\ [][FaultNext]_vars

\* a create_post run that ended with an exception
CreateFailed == proc[W].pc = "failed" /\ proc[W].op = "create"

\* C21: when update_post, adjust_credits or save_embedding fails during a
\* create_post run, nothing partial is left: the run's post is not verified
\* with credits_awarded > 0 while the ledger is as the run found it, and the
\* ledger is not credited while the post's vector is missing.
C21_NoPartialResult ==
    CreateFailed =>
        /\ ~(/\ MyPost.status = "verified"
             /\ MyPost.credits_awarded > 0
             /\ GetCredits(proc[W].user) = proc[W].bal0)
        /\ ~(/\ GetCredits(proc[W].user) > proc[W].bal0
             /\ RecordsOf(proc[W].post) = 0)

\* ------------------------------------------- purge_rejected_posts
\* list_posts calls purge_rejected_posts before it reads the posts. Handlers
\* of different workers interleave transaction by transaction.
\* SELECT id, created_at FROM posts WHERE status = 'rejected', keeping the
\* ids whose created_at is before the cutoff; the transaction ends here
PurgeSelect(p) ==
    /\ Takes(p)
    /\ opCount < MaxOps
    /\ opCount' = opCount + 1
    /\ proc' = [proc EXCEPT ![p] =
                  [Idle EXCEPT !.pc = "purge_delete", !.op = "purge",
                               !.stale_ids = {id \in DOMAIN posts :
                                                /\ posts[id].status = "rejected"
                                                /\ posts[id].created_at = "stale"}]]
    /\ UNCHANGED <<scan, last, posts, credits, embeddings, nextId, config,
                   redeemed, deleted, accepted>>

\* for post_id in stale_ids: delete_post_record(post_id), one transaction
\* each, whatever the row holds by then
PurgeDelete(p) ==
    /\ proc[p].pc = "purge_delete"
    /\ IF proc[p].stale_ids = {}
       THEN /\ proc' = [proc EXCEPT ![p].pc = "done"]
            /\ UNCHANGED <<posts, embeddings, deleted, accepted>>
       ELSE \E id \in proc[p].stale_ids :
               /\ posts' = [x \in DOMAIN posts \ {id} |-> posts[x]]
               /\ embeddings' = SelectSeq(embeddings, LAMBDA e : e.post_id # id)
               /\ deleted' = TRUE
               /\ accepted' = accepted \ {id}
               /\ proc' = [proc EXCEPT ![p].stale_ids = @ \ {id}]
    /\ UNCHANGED <<scan, last, credits, nextId, opCount, config, redeemed>>

\* one post as a completed create_post leaves it, recent or past the cutoff
PurgeInit ==
    /\ \E st \in OnePostStates, age \in {"recent", "stale"} :
          /\ posts = [x \in {1} |->
                        [PostRow("u1", "m1") EXCEPT !.status = st.status,
                                                    !.verified = st.verified,
                                                    !.credits_awarded = st.credits_awarded,
                                                    !.created_at = age]]
          /\ credits = IF st.credited
                       THEN [u \in {"u1"} |-> NewBalance(0, st.credits_awarded)]
                       ELSE <<>>
    /\ embeddings = <<[post_id |-> 1, user_id |-> "u1",
                       vector |-> HashEmbedding("m1", HashDims)]>>
    /\ nextId = 2
    /\ opCount = 0
    /\ offline_mode = FALSE
    /\ gemini_api_key = FALSE
    /\ ai_service_url = TRUE
    /\ proc = [p \in Procs |-> Idle]
    /\ redeemed = FALSE
    /\ deleted = FALSE
    /\ accepted = {1}
    /\ scan = NoScan
    /\ last = Idle

PurgeStep(p) ==
    \/ PurgeSelect(p)
    \/ PurgeDelete(p)
    \/ \E id \in 1..MaxOps, c \in ApproveCredits : ApproveRead(p, id, c)
    \/ ApproveUpdate(p)
    \/ \E id \in 1..MaxOps : RejectRead(p, id)
    \/ RejectUpdate(p)
    \/ AdjustRead(p)
    \/ AdjustWrite(p)
    \/ Return(p)

PurgeNext == \E p \in Procs : NoneFinished(p) /\ PurgeStep(p)

PurgeSpec == PurgeInit /\ [][PurgeNext]_vars

\* C22: a post that purge_rejected_posts deletes has status rejected at the
\* moment it is deleted and is older than the retention window, and its
\* embeddings go with it; a pending or verified post is never deleted by the
\* purge, also when approve_post runs between the purge's steps.
C22_PurgeOnlyRejected ==
    [][\A id \in DOMAIN posts \ DOMAIN posts' :
          /\ posts[id].status = "rejected"
          /\ posts[id].created_at = "stale"
          /\ \A i \in 1..Len(embeddings') : embeddings'[i].post_id # id]_vars

\* C23: every post's credits_awarded is a non-negative integer, whatever
\* amount the admin passes to approve_post and whatever the remote service
\* returns.
C23_CreditsNonNegative ==
    \A id \in DOMAIN posts :
        posts[id].credits_awarded \in Nat

\* ------------------------------------------- _hash_embedding on its own
\* _hash_embedding(data, dims) called again and again with the same
\* arguments while other requests write to the embeddings table.
HashData == {"m1", "m2", "m3", "m4"}

HashInit ==
    /\ posts = <<>>
    /\ credits = <<>>
    /\ embeddings = <<>>
    /\ nextId = 1
    /\ opCount = 0
    /\ offline_mode = TRUE
    /\ gemini_api_key = FALSE
    /\ ai_service_url = FALSE
    /\ proc = [p \in Procs |-> Idle]
    /\ redeemed = FALSE
    /\ deleted = FALSE
    /\ accepted = {}
    /\ last = Idle
    /\ \E data \in HashData, dims \in 0..MaxDims :
          scan = [pc |-> "hash", data |-> data, dims |-> dims, out |-> <<>>,
                  calls |-> 0]

\* _hash_embedding(data, dims)
HashEmbeddingCall ==
    /\ scan.pc = "hash"
    /\ scan.calls <= MaxOps
    /\ scan' = [scan EXCEPT !.out = HashEmbedding(scan.data, scan.dims),
                            !.calls = @ + 1]
    /\ UNCHANGED <<posts, credits, embeddings, nextId, opCount, config, proc,
                   redeemed, deleted, accepted, last>>

\* save_embedding of some other request, between two calls
OtherSaveEmbedding ==
    /\ scan.pc = "hash"
    /\ Len(embeddings) < MaxStore
    /\ \E u \in Users :
          embeddings' = Append(embeddings,
                               [post_id |-> Len(embeddings) + 1, user_id |-> u,
                                vector |-> HashEmbedding("m1", HashDims)])
    /\ UNCHANGED <<posts, credits, nextId, opCount, config, proc, scan,
                   redeemed, deleted, accepted, last>>

HashNext == HashEmbeddingCall \/ OtherSaveEmbedding

HashSpec == HashInit /\ [][HashNext]_vars

T_yes_split_no == <<"y", "e", "s", " ", "i", "t", "'", "s", " ", "n", "o">>
T_yes_tenth_no == <<"Y", "e", "s", " ", "i", "t", " ", "i", "N", "O">>
T_blank_yes_late_no == <<" ", " ", " ", "y", "e", "s", " ", "i", "t", " ", "i", "s", " ",
                         "n", "o", "t">>
T_maybe == <<"m", "a", "y", "b", "e">>
T_eyes == <<"e", "y", "e", "s">>

AssessTexts == GeminiTexts \cup {T_yes_split_no, T_yes_tenth_no, T_blank_yes_late_no,
                                 T_maybe, T_eyes}

AssessInit ==
    /\ posts = <<>>
    /\ credits = <<>>
    /\ embeddings = <<>>
    /\ nextId = 1
    /\ opCount = 0
    /\ offline_mode \in BOOLEAN
    /\ gemini_api_key \in BOOLEAN
    /\ ai_service_url = FALSE
    /\ proc = [p \in Procs |-> Idle]
    /\ redeemed = FALSE
    /\ deleted = FALSE
    /\ accepted = {}
    /\ last = Idle
    /\ \E raw \in AssessTexts :
          scan = [pc |-> "assess", raw |-> raw, raised |-> FALSE,
                  verdict |-> FALSE, notes |-> <<>>, calls |-> 1]

\* assess_image_authenticity(content, settings), the model answering raw or
\* the call raising
AssessCall ==
    /\ scan.pc = "assess"
    /\ \/ /\ offline_mode \/ ~gemini_api_key
          /\ scan' = [scan EXCEPT !.pc = "assessed", !.notes = OfflineSentinel]
       \/ /\ ~(offline_mode \/ ~gemini_api_key)
          /\ \/ scan' = [scan EXCEPT !.pc = "assessed", !.raised = TRUE,
                                     !.notes = GeminiErrorNote]
             \/ scan' = [scan EXCEPT !.pc = "assessed",
                                     !.verdict = AssessText(scan.raw).verdict,
                                     !.notes = AssessText(scan.raw).notes]
    /\ UNCHANGED <<posts, credits, embeddings, nextId, opCount, config, proc,
                   redeemed, deleted, accepted, last>>

\* the caller takes the result; the next call gets another answer
AssessAgain ==
    /\ scan.pc = "assessed"
    /\ scan.calls < MaxOps
    /\ \E raw \in AssessTexts :
          scan' = [pc |-> "assess", raw |-> raw, raised |-> FALSE,
                   verdict |-> FALSE, notes |-> <<>>, calls |-> scan.calls + 1]
    /\ UNCHANGED <<posts, credits, embeddings, nextId, opCount, config, proc,
                   redeemed, deleted, accepted, last>>

AssessNext == AssessCall \/ AssessAgain

AssessSpec == AssessInit /\ [][AssessNext]_vars

\* the assessor ran on an answer of the model
Assessed ==
    /\ scan.pc = "assessed"
    /\ ~offline_mode /\ gemini_api_key
    /\ ~scan.raised

\* the stripped, lower-cased answer, and where it holds "yes" and "no"
AnswerText == Lower(Strip(scan.raw))

YesAt(i) ==
    /\ i + 2 <= Len(AnswerText)
    /\ AnswerText[i] = "y" /\ AnswerText[i + 1] = "e" /\ AnswerText[i + 2] = "s"

NoAt(i) ==
    /\ i + 1 <= Len(AnswerText)
    /\ AnswerText[i] = "n" /\ AnswerText[i + 1] = "o"

\* C25: with the assessor configured and the model returning text, the
\* verdict is true exactly when the stripped, lower-cased text contains
\* "yes" and holds no "no" within its first 10 characters; a "no" that
\* appears only after the tenth character does not make the verdict false.
C25_VerdictFromText ==
    Assessed =>
        (scan.verdict <=>
            /\ \E i \in 1..Len(AnswerText) : YesAt(i)
            /\ ~\E i \in 1..9 : NoAt(i))

\* a "yes" with a "no" only after the tenth character: verdict true
C25_Witness ==
    /\ Assessed
    /\ scan.verdict
    /\ \E i \in 11..Len(AnswerText) : NoAt(i)

\* ------------------------- the verification service and its client
\* call_ai_service posts the same payload (user_id, post_id, media) up to
\* Attempts times; verify handles every request that reaches the service.
\* scan.rows is the service's embeddings table.
VerifyInit ==
    /\ posts = <<>>
    /\ credits = <<>>
    /\ embeddings = <<>>
    /\ nextId = 1
    /\ opCount = 0
    /\ offline_mode = FALSE
    /\ gemini_api_key = FALSE
    /\ ai_service_url = TRUE
    /\ proc = [p \in Procs |-> Idle]
    /\ redeemed = FALSE
    /\ deleted = FALSE
    /\ accepted = {}
    /\ last = Idle
    /\ \E n \in 0..MaxStore, q \in ScanVectors, u \in Users :
          \E f \in [1..n -> Users \X ScanVectors] :
             scan = [pc |-> "send", service |-> "verify",
                     rows |-> [i \in 1..n |->
                                 [post_id |-> i, user_id |-> f[i][1],
                                  kind |-> "mobilenet", vector |-> f[i][2]]],
                     user_id |-> u, post_id |-> n + 1, vector |-> q,
                     attempt |-> 0, dup |-> 0, answer |-> NoAi, result |-> NoAi]

\* verify: dup = search_vectors(...); save_vector(...); rejected when dup,
\* else verified with DEFAULT_CREDITS; pending, nothing saved, when no
\* MobileNet embedding is produced
Verify ==
    /\ scan.pc = "send"
    /\ \/ LET dup == SearchVectors(scan.rows, scan.user_id, scan.vector,
                                   "mobilenet", DupThreshold)
          IN  scan' = [scan EXCEPT
                         !.pc = "reply",
                         !.dup = dup,
                         !.rows = Append(@, [post_id |-> scan.post_id,
                                             user_id |-> scan.user_id,
                                             kind |-> "mobilenet",
                                             vector |-> scan.vector]),
                         !.answer = IF dup # 0
                                    THEN [kind |-> "body", status |-> "rejected",
                                          credits |-> 0]
                                    ELSE [kind |-> "body", status |-> "verified",
                                          credits |-> DEFAULT_CREDITS]]
       \/ scan' = [scan EXCEPT !.pc = "reply", !.dup = 0,
                               !.answer = [kind |-> "body", status |-> "pending",
                                           credits |-> 0]]
    /\ UNCHANGED <<posts, credits, embeddings, nextId, opCount, config, proc,
                   redeemed, deleted, accepted, last>>

\* resp.status_code == 200: return resp.json()
VerifyReplyArrives ==
    /\ scan.pc = "reply"
    /\ scan' = [scan EXCEPT !.pc = "returned", !.result = scan.answer]
    /\ UNCHANGED <<posts, credits, embeddings, nextId, opCount, config, proc,
                   redeemed, deleted, accepted, last>>

\* the client's timeout passes before the answer arrives: the attempt
\* raises, and the same payload is sent again or the answer is synthesized
VerifyReplyLost ==
    /\ scan.pc = "reply"
    /\ scan' = IF scan.attempt < Attempts - 1
               THEN [scan EXCEPT !.pc = "send", !.attempt = @ + 1]
               ELSE [scan EXCEPT !.pc = "returned", !.result = Synthesized]
    /\ UNCHANGED <<posts, credits, embeddings, nextId, opCount, config, proc,
                   redeemed, deleted, accepted, last>>

VerifyNext == Verify \/ VerifyReplyArrives \/ VerifyReplyLost

VerifySpec == VerifyInit /\ [][VerifyNext]_vars

\* the service's table without the records of the request's own post id
OtherPostsRows == SelectSeq(scan.rows, LAMBDA r : r.post_id # scan.post_id)

\* C26: a verification request retried for the same post id is never
\* rejected as a duplicate of itself: the service's answer is the one it
\* gives on the records of the other posts alone, whatever an earlier
\* attempt for the same post id stored.
C26_RetryNotOwnDuplicate ==
    (scan.pc = "reply" /\ scan.answer.status # "pending") =>
        /\ scan.dup # scan.post_id
        /\ (scan.answer.status = "rejected") <=>
              (SearchVectors(OtherPostsRows, scan.user_id, scan.vector,
                             "mobilenet", DupThreshold) # 0)

\* ------------------------------------ moderation by concurrent workers
\* approve_post and reject_post served by different workers interleave
\* statement by statement (get_post, update_post and the two statements of
\* adjust_credits are transactions of their own). The database starts with
\* one post whose credits_awarded is what its owner's ledger holds.
ApprovalInit ==
    /\ ModerationInit
    /\ posts[1].credits_awarded = GetCredits("u1")

ApprovalStep(p) ==
    \/ \E id \in 1..MaxOps, c \in ApproveCredits : ApproveRead(p, id, c)
    \/ ApproveUpdate(p)
    \/ \E id \in 1..MaxOps : RejectRead(p, id)
    \/ RejectUpdate(p)
    \/ AdjustRead(p)
    \/ AdjustWrite(p)
    \/ Return(p)

ApprovalNext == \E p \in Procs : ApprovalStep(p)

ApprovalSpec == ApprovalInit /\ [][ApprovalNext]_vars

\* no approve_post or reject_post is in progress
NoModerationRunning == \A p \in Procs : proc[p].pc \in {"idle", "done"}

\* C27: when approve_post and reject_post calls on the same post run
\* concurrently, the ledger changes in total by the post's final
\* credits_awarded minus the amount it held before: started from a ledger
\* that holds the post's amount, the ledger holds the post's amount again
\* once the calls are over (two concurrent approvals with the same c of a
\* post with 0 credits add c once).
C27_ConcurrentModerationNet ==
    (NoModerationRunning /\ 1 \in DOMAIN posts) =>
        GetCredits("u1") = posts[1].credits_awarded

\* C28: every post with credits_awarded > 0 has status verified; a pending
\* or rejected post has credits_awarded = 0, whatever the remote service
\* returns.
C28_CreditsOnlyVerified ==
    \A id \in DOMAIN posts :
        /\ posts[id].credits_awarded > 0 => posts[id].status = "verified"
        /\ posts[id].status \in {"pending", "rejected"} => posts[id].credits_awarded = 0

\* a redeem call of the sequential worker that succeeded
RedeemDone == proc[W].pc = "done" /\ proc[W].op = "redeem"

\* C29: every successful redeem lowers the user's balance by exactly
\* request.amount, for every integer amount (zero and negative included).
C29_RedeemExactAmount ==
    RedeemDone => GetCredits(proc[W].user) = proc[W].bal0 - proc[W].arg

\* C30: every record of the embeddings table refers to an existing post,
\* also when delete_post (or the purge) runs between the steps of a
\* create_post run that has not yet saved its embedding.
C30_NoOrphanEmbedding ==
    \A i \in 1..Len(embeddings) : embeddings[i].post_id \in DOMAIN posts

====
